---- MODULE Spec2Model ----
(***************************************************************************)
(* A model of the rating engine of rating-update (src/src/rater.rs).       *)
(*                                                                         *)
(* The persistent store (ratings.sqlite) is the shared state: one variable *)
(* per table.  Two tasks run against it (rater.rs:166-172):                *)
(*   pull_continuous            - the ingest task, one transaction a tick  *)
(*   update_ratings_continuous  - the rating task, whose update_ratings    *)
(*                                reads the window's games, then the rated *)
(*                                players, and only then opens the write   *)
(*                                transaction it commits at the end.       *)
(* Every SQL statement outside a transaction and every committed           *)
(* transaction is one atomic step; the steps of the two tasks interleave.  *)
(*                                                                         *)
(* After update_ratings the loop of the rating task runs                   *)
(* update_player_distribution and calc_versus_matchups (rater.rs:198-199), *)
(* each in a transaction of its own.  They write the two distribution      *)
(* tables and versus_matchups, which neither task reads.  The              *)
(* specifications share the actions:                                       *)
(*   Spec      - run: the ingest task against the rating windows, on the   *)
(*               tables the two tasks read; the rating task is "idle" from *)
(*               the commit of update_ratings to its next read of config.  *)
(*   LoopSpec  - update_ratings_continuous on a store imported by          *)
(*               load_json_data: start-up, then every pass of the loop as  *)
(*               its three transactions, and the failure of a window.      *)
(*   FairLoopSpec - LoopSpec with the loop's body scheduled.               *)
(*   DistSpec  - reset_distribution: update_player_distribution on stores  *)
(*               with enough rated entities to fill a rating bin.          *)
(*   PullSpec  - pull_continuous alone: every tick as the fetch of          *)
(*               get_replays and the transaction that stores its replays.  *)
(*                                                                         *)
(* Numbers.  Ratings are kept in Glicko points relative to 1500 (the       *)
(* internal value times 173.7178), so that the two thresholds are the      *)
(* integers of rater.rs:15-16.  Probabilities are fixed point, in          *)
(* thousandths.  glicko2::new_rating and f64::exp belong to external       *)
(* crates; they are replaced by integer functions that keep what           *)
(* update_ratings relies on (see new_rating and Logistic below).           *)
(***************************************************************************)
EXTENDS Integers, Sequences, FiniteSets, Bags, TLC

\* ---------------------------------------------------------------- constants

\* rater.rs:19  pub const RATING_PERIOD: i64 = 1 * 60 * 60
RATING_PERIOD == 3600

\* rater.rs:15  MAX_DEVIATION = 100.0 / 173.7178, in Glicko points
MAX_DEVIATION == 100

\* rater.rs:16  HIGH_RATING = (1800.0 - 1500.0) / 173.7178, in Glicko points
HIGH_RATING == 300

\* rater.rs:196  the slack of the rating loop's guard, in seconds
GUARD_SLACK == 60

\* rater.rs:457  the 1.0 of "1.0 - a_win_prob", in thousandths
ProbScale == 1000

\* rater.rs:362  a rating bin with fewer players is not written
MIN_BIN_PLAYERS == 10

\* rater.rs:344  for r in 0..60
RATING_BINS == 60

\* rater.rs:345-346  the width of a rating bin, in Glicko points
BIN_WIDTH == 50

\* rater.rs:21-23  the 1500.0 of glicko_to_glicko2
GLICKO_ORIGIN == 1500

\* ------------------------------------------------------------------- bounds

\* Rating windows the clock lets the rating task run.
MaxWindows == 3

\* Rows the games table may hold.
MaxGames == 3

\* Characters of the roster, numbered from 0 (website::CHAR_NAMES.len() in
\* the program).
RosterSize == 3

\* config.last_update of a freshly initialised store.
InitialCursor == 0

Min(a, b) == IF a < b THEN a ELSE b

Max(a, b) == IF a > b THEN a ELSE b

\* ------------------------------------------------------------------ helpers

\* The table f with the row of key k set to v (SQL REPLACE INTO).
Put(f, k, v) == [x \in (DOMAIN f) \cup {k} |-> IF x = k THEN v ELSE f[x]]

\* The table f with a row v of key k unless it has one (SQL INSERT OR IGNORE).
PutIfAbsent(f, k, v) == IF k \in DOMAIN f THEN f ELSE Put(f, k, v)

EmptyTable == [x \in {} |-> 0]

RECURSIVE SumOver(_, _)
\* The sum of f[x] over x in S.
SumOver(f, S) ==
    IF S = {} THEN 0
    ELSE LET x == CHOOSE y \in S : TRUE IN f[x] + SumOver(f, S \ {x})

\* The sequences that hold every element of the bag b as often as b does.
Orders(b) ==
    LET n == BagCardinality(b)
        S == BagToSet(b)
    IN  {s \in [1..n -> S] :
            \A x \in S : Cardinality({i \in 1..n : s[i] = x}) = CopiesIn(x, b)}

\* The bag of the elements of the sequence s.
SeqToBag(s) ==
    LET S == {s[i] : i \in 1..Len(s)}
    IN  [x \in S |-> Cardinality({i \in 1..Len(s) : s[i] = x})]

\* ---------------------------------------------------------- the replay feed

\* The name a player carries at a time: player 1 renames after the first hour.
NameAt(id, ts) ==
    IF id = 1
    THEN (IF ts < InitialCursor + RATING_PERIOD THEN "ann" ELSE "anna")
    ELSE "bob"

\* The floor matches are played on at a time.
FloorAt(ts) == IF ts < InitialCursor + RATING_PERIOD THEN 10 ELSE 99

\* ggst_api::Match as add_game destructures it (rater.rs:257-262): the
\* timestamp, the two players (id, name, character), the floor, the winner.
Match(ts, seat, w) ==
    [timestamp |-> ts,
     a |-> [id |-> seat[1], name |-> NameAt(seat[1], ts), character |-> seat[2]],
     b |-> [id |-> seat[3], name |-> NameAt(seat[3], ts), character |-> seat[4]],
     floor |-> FloorAt(ts), winner |-> w]

\* The instants matches are played at: the last second of the first window,
\* and the first second of the second and of the third.
Timestamps ==
    {InitialCursor + RATING_PERIOD - 1, InitialCursor + RATING_PERIOD,
     InitialCursor + 2 * RATING_PERIOD}

\* The records the feed may return for an instant, as <<id_a, char_a, id_b,
\* char_b, winner>>.  Player 1 plays character 0 and player 2 both characters.
\*   last second of window 1:  a mirror match, reported with either winner
\*                             (two records of one (timestamp, id_a, id_b));
\*   first second of window 2: player 2 on character 1 in seat a wins;
\*   first second of window 3: the seats swapped, with either winner, and
\*                             player 1 (on two consoles) against itself.
Records(ts) ==
    IF ts = InitialCursor + RATING_PERIOD - 1
        THEN {<<1, 0, 2, 0, "Player1">>, <<1, 0, 2, 0, "Player2">>}
    ELSE IF ts = InitialCursor + RATING_PERIOD
        THEN {<<2, 1, 1, 0, "Player1">>}
    ELSE {<<1, 0, 2, 1, "Player1">>, <<1, 0, 2, 1, "Player2">>,
          <<1, 0, 1, 0, "Player1">>}

\* The matches the feed may return.
Matches ==
    UNION {{Match(ts, r, r[5]) : r \in Records(ts)} : ts \in Timestamps}

\* ----------------------------------------------------------------- ratings

\* glicko2::Glicko2Rating::unrated() (rater.rs:846): value 0, deviation 350
\* Glicko points, volatility 0.06 (in hundredths).
Unrated == [value |-> 0, deviation |-> 350, volatility |-> 6]

\* RatedPlayer::new (rater.rs:840-848), with the empty outcome list
\* update_ratings attaches to it (rater.rs:446).
NewEntry == [win_count |-> 0, loss_count |-> 0, rating |-> Unrated, results |-> <<>>]

\* RatedPlayer::from_row with the counts of earlier windows left behind.
EntryOfRow_fresh_counts(row) ==
    [win_count |-> 0, loss_count |-> 0, rating |-> row.rating, results |-> <<>>]

\* RatedPlayer::from_row (rater.rs:849-861) with its empty outcome list
\* (rater.rs:430-433).
EntryOfRow(row) ==
    [win_count |-> row.win_count, loss_count |-> row.loss_count,
     rating |-> row.rating, results |-> <<>>]

\* exp(d / 173.7178) / (exp(d / 173.7178) + 1) in thousandths, for a
\* difference of d Glicko points, one step per 100 points (f64::exp is
\* replaced by this table).
LogisticTable == <<500, 640, 760, 849, 909, 947, 969, 983, 990, 994, 997, 998, 999>>

Logistic(d) ==
    IF d >= 0
    THEN LogisticTable[Min(d \div 100, 12) + 1]
    ELSE ProbScale - LogisticTable[Min((0 - d) \div 100, 12) + 1]

\* rater.rs:456  a_win_prob = exp(v_a) / (exp(v_a) + exp(v_b))
a_win_prob(rating_a, rating_b) == Logistic(rating_a.value - rating_b.value)

\* rater.rs:457  b_win_prob = 1.0 - a_win_prob
b_win_prob(rating_a, rating_b) == ProbScale - a_win_prob(rating_a, rating_b)

\* glicko2::GameResult::win / ::loss (rater.rs:496, 501, 574, 579): the
\* opponent's rating and the score.
GameResultWin(opponent) == [opponent |-> opponent, score |-> 1]

GameResultLoss(opponent) == [opponent |-> opponent, score |-> 0]

RECURSIVE ScoreSurplus(_, _, _)
\* The sum over the outcomes results[1..n] of score minus expected score, in
\* thousandths.
ScoreSurplus(rating, results, n) ==
    IF n = 0 THEN 0
    ELSE results[n].score * ProbScale
            - Logistic(rating.value - results[n].opponent.value)
            + ScoreSurplus(rating, results, n - 1)

\* glicko2::new_rating(rating, &results, SYS_CONSTANT) (rater.rs:670).  The
\* crate's arithmetic is replaced by an integer rule with the same shape: the
\* value moves by the deviation times the surplus of the scores over the
\* expected scores; a period with games shrinks the deviation and a period
\* without games grows it; the volatility is not followed.
new_rating(rating, results) ==
    LET n == Len(results)
    IN  [value |-> rating.value
                     + (3 * rating.deviation * ScoreSurplus(rating, results, n))
                           \div ProbScale,
         deviation |-> IF n = 0 THEN rating.deviation + 25
                       ELSE Max(50, rating.deviation - 300 * n),
         volatility |-> rating.volatility]

\* ------------------------------------------------------------------- store

VARIABLES
    games,                \* table games: a bag of rows
    players,              \* table players: id -> [name, floor]
    player_names,         \* table player_names: a set of <<id, name>>
    player_ratings,       \* table player_ratings: <<id, char_id>> -> row
    game_ratings,         \* table game_ratings: a bag of snapshot rows
    player_matchups,      \* <<id, char_id, opp_char_id>> -> counters
    global_matchups,      \* <<char_id, opp_char_id>> -> counters
    high_rated_matchups,  \* <<char_id, opp_char_id>> -> counters
    versus_matchups,      \* <<char_a, char_b>> -> [game_count, pair_count, win_rate]
    player_floor_distribution,   \* floor -> [player_count, game_count]
    player_rating_distribution,  \* min_rating -> [max_rating, player_count, player_count_cum]
    last_update,          \* config.last_update
    now,                  \* Utc::now().timestamp()
    page_diag,            \* the page-count diagnostic of the last ingest tick
    replays,              \* grab_games: replays, while it runs (rater.rs:211-221)
    rate_pc,              \* where the rating task is
    last_timestamp,       \* update_ratings: last_timestamp (rater.rs:390)
    rate_games,           \* update_ratings: games (rater.rs:402)
    rate_players,         \* update_ratings: players (rater.rs:416)
    last_rating_timestmap \* update_ratings_continuous (rater.rs:189)

vars ==
    <<games, players, player_names, player_ratings, game_ratings,
      player_matchups, global_matchups, high_rated_matchups, versus_matchups,
      player_floor_distribution, player_rating_distribution, last_update, now,
      page_diag, replays, rate_pc, last_timestamp, rate_games, rate_players,
      last_rating_timestmap>>

\* The uniqueness key of the games table (init.sql).
GameKey(g) == <<g.timestamp, g.id_a, g.id_b>>

\* The row add_game binds (rater.rs:278-291).
GameRow(m) ==
    [timestamp |-> m.timestamp,
     id_a |-> m.a.id, name_a |-> m.a.name, char_a |-> m.a.character,
     id_b |-> m.b.id, name_b |-> m.b.name, char_b |-> m.b.character,
     winner |-> IF m.winner = "Player1" THEN 1 ELSE 2,
     game_floor |-> m.floor]

\* update_player (rater.rs:296-308): REPLACE INTO players and INSERT OR IGNORE
\* INTO player_names, on a record db that holds both tables.
update_player(db, id, name, floor) ==
    [db EXCEPT !.players = Put(@, id, [name |-> name, floor |-> floor]),
               !.player_names = @ \cup {<<id, name>>}]

\* INSERT OR REPLACE INTO games: the later record of a match wins.
insert_game_replace(store, row) ==
    LET kept == {g \in BagToSet(store) : GameKey(g) # GameKey(row)}
    IN  [g \in kept |-> store[g]] (+) SetToBag({row})

\* INSERT INTO games on a table without the uniqueness key.
insert_game_always(store, row) == store (+) SetToBag({row})

\* INSERT OR IGNORE INTO games (rater.rs:266-293).
insert_game(store, row) ==
    IF \E g \in BagToSet(store) : GameKey(g) = GameKey(row)
    THEN store
    ELSE store (+) SetToBag({row})

\* add_game (rater.rs:256-294) on a record db of players, player_names, games.
add_game(db, m) ==
    LET d1 == update_player(db, m.a.id, m.a.name, m.floor)
        d2 == update_player(d1, m.b.id, m.b.name, m.floor)
    IN  [d2 EXCEPT !.games = insert_game(@, GameRow(m))]

RECURSIVE add_games(_, _)
\* The loop over the fetched replays (rater.rs:228-230).
add_games(db, batch) ==
    IF batch = <<>> THEN db
    ELSE add_games(add_game(db, Head(batch)), Tail(batch))

\* The page-count diagnostic of grab_games (rater.rs:245-249).
PageDiag(new_games, fetched) ==
    IF new_games = fetched THEN "only_new"
    ELSE IF new_games > fetched \div 2 THEN "over_half"
    ELSE "quiet"

\* The local replays of grab_games: nothing outside the function, the fetched
\* matches from the return of get_replays on.
NoReplays == [fetched |-> FALSE, list |-> <<>>]

\* The batches one fetch may return from the matches played so far: no match,
\* one match, or two records of one match (the same record twice, or two that
\* differ).
Batches(avail) ==
    {<<>>} \cup {<<m>> : m \in avail}
        \cup {b \in avail \X avail : GameKey(GameRow(b[1])) = GameKey(GameRow(b[2]))}

\* ----------------------------------------------------------- update_ratings

\* A cursor that also skips the slack of the loop's guard.
next_timestamp_slack(last) == last + RATING_PERIOD + GUARD_SLACK

\* rater.rs:393  next_timestamp = last_timestamp + RATING_PERIOD
next_timestamp(last) == last + RATING_PERIOD

\* The window with its upper bound included (timestamp <= ?).
window_games_closed(store, from, to) ==
    LET S == {g \in BagToSet(store) : g.timestamp >= from /\ g.timestamp <= to}
    IN  [g \in S |-> store[g]]

\* SELECT * FROM games WHERE timestamp >= ? AND timestamp < ?
\* (rater.rs:402-413): the rows of the window, as a bag.
window_games(store, from, to) ==
    LET S == {g \in BagToSet(store) : g.timestamp >= from /\ g.timestamp < to}
    IN  [g \in S |-> store[g]]

\* The map left empty: every entity starts the window unrated.
load_players_fresh(ratings) == EmptyTable

\* The in-memory map of rated players (rater.rs:416-436).
load_players(ratings) == [e \in DOMAIN ratings |-> EntryOfRow(ratings[e])]

\* The rating of an entry brought up to date with the outcomes pushed so far.
entry_rating_running(entry) == new_rating(entry.rating, entry.results)

\* The rating update_ratings reads from an entry of the map
\* (rater.rs:444-454): the rating field, which the loop never writes.
entry_rating(entry) == entry.rating

ZeroCounters ==
    [wins_real |-> 0, losses_real |-> 0, wins_adjusted |-> 0, losses_adjusted |-> 0]

\* SQL UPDATE t SET field = field + amount WHERE <key> = k.
Increment(t, k, field, amount) ==
    IF k \in DOMAIN t THEN [t EXCEPT ![k][field] = @ + amount] ELSE t

\* One established rating is enough (|| for &&).
established_either(rating_a, rating_b) ==
    rating_a.deviation < MAX_DEVIATION \/ rating_b.deviation < MAX_DEVIATION

\* rater.rs:521, 600  both ratings are established
established(rating_a, rating_b) ==
    rating_a.deviation < MAX_DEVIATION /\ rating_b.deviation < MAX_DEVIATION

\* One high rating is enough (|| for &&).
high_rated_either(rating_a, rating_b) ==
    rating_a.value > HIGH_RATING \/ rating_b.value > HIGH_RATING

\* rater.rs:551, 631  both ratings are high
high_rated(rating_a, rating_b) ==
    rating_a.value > HIGH_RATING /\ rating_b.value > HIGH_RATING

\* The outcome pushes with the loser's loss_count forgotten.
record_outcome_winner_only(mem, ea, eb, rating_a, rating_b, winner) ==
    LET push(m, e, r) == [m EXCEPT ![e].results = Append(@, r)]
        won(m, e) == [m EXCEPT ![e].win_count = @ + 1]
    IN  IF winner = 1
        THEN won(push(push(mem, ea, GameResultWin(rating_b)),
                      eb, GameResultLoss(rating_a)), ea)
        ELSE won(push(push(mem, ea, GameResultLoss(rating_b)),
                      eb, GameResultWin(rating_a)), eb)

\* The outcome pushes and the win/loss counts (rater.rs:492-503, 570-581).
record_outcome(mem, ea, eb, rating_a, rating_b, winner) ==
    LET push(m, e, r) == [m EXCEPT ![e].results = Append(@, r)]
        won(m, e) == [m EXCEPT ![e].win_count = @ + 1]
        lost(m, e) == [m EXCEPT ![e].loss_count = @ + 1]
    IN  IF winner = 1
        THEN lost(won(push(push(mem, ea, GameResultWin(rating_b)),
                           eb, GameResultLoss(rating_a)), ea), eb)
        ELSE won(lost(push(push(mem, ea, GameResultLoss(rating_b)),
                           eb, GameResultWin(rating_a)), ea), eb)

\* The winner == 2 branch left as a copy of the winner == 1 branch.
player_real_copied(pm, ka, kb, winner) ==
    Increment(Increment(pm, ka, "wins_real", 1), kb, "losses_real", 1)

\* The real counters of player_matchups (rater.rs:505-518, 583-597).
player_real(pm, ka, kb, winner) ==
    IF winner = 1
    THEN Increment(Increment(pm, ka, "wins_real", 1), kb, "losses_real", 1)
    ELSE Increment(Increment(pm, ka, "losses_real", 1), kb, "wins_real", 1)

\* The adjusted counters of player_matchups (rater.rs:522-535, 601-614).
player_adjusted(pm, ka, kb, winner, pa, pb) ==
    IF winner = 1
    THEN Increment(Increment(pm, ka, "wins_adjusted", pb), kb, "losses_adjusted", pb)
    ELSE Increment(Increment(pm, ka, "losses_adjusted", pa), kb, "wins_adjusted", pa)

\* The weights taken from the winner's side: a_win_prob when seat a wins.
global_counters_own(gm, cab, cba, winner, pa, pb) ==
    IF winner = 1
    THEN Increment(Increment(Increment(Increment(gm,
             cab, "wins_real", 1), cab, "wins_adjusted", pa),
             cba, "losses_real", 1), cba, "losses_adjusted", pa)
    ELSE Increment(Increment(Increment(Increment(gm,
             cba, "wins_real", 1), cba, "wins_adjusted", pb),
             cab, "losses_real", 1), cab, "losses_adjusted", pb)

\* global_matchups (rater.rs:536-549, 616-629).
global_counters(gm, cab, cba, winner, pa, pb) ==
    IF winner = 1
    THEN Increment(Increment(Increment(Increment(gm,
             cab, "wins_real", 1), cab, "wins_adjusted", pb),
             cba, "losses_real", 1), cba, "losses_adjusted", pb)
    ELSE Increment(Increment(Increment(Increment(gm,
             cba, "wins_real", 1), cba, "wins_adjusted", pa),
             cab, "losses_real", 1), cab, "losses_adjusted", pa)

\* high_rated_matchups with the winner's row updated and the loser's left.
high_rated_counters_winner_row(hm, cab, cba, winner, pa, pb) ==
    IF winner = 1
    THEN Increment(Increment(hm, cab, "wins_real", 1), cab, "wins_adjusted", pb)
    ELSE Increment(Increment(hm, cba, "wins_real", 1), cba, "wins_adjusted", pb)

\* high_rated_matchups (rater.rs:552-565, 632-645): both branches add
\* b_win_prob.
high_rated_counters(hm, cab, cba, winner, pa, pb) ==
    IF winner = 1
    THEN Increment(Increment(Increment(Increment(hm,
             cab, "wins_real", 1), cab, "wins_adjusted", pb),
             cba, "losses_real", 1), cba, "losses_adjusted", pb)
    ELSE Increment(Increment(Increment(Increment(hm,
             cba, "wins_real", 1), cba, "wins_adjusted", pb),
             cab, "losses_real", 1), cab, "losses_adjusted", pb)

\* INSERT INTO game_ratings (rater.rs:652-664).
SnapshotRow(g, rating_a, rating_b) ==
    [timestamp |-> g.timestamp,
     id_a |-> g.id_a, value_a |-> rating_a.value, deviation_a |-> rating_a.deviation,
     id_b |-> g.id_b, value_b |-> rating_b.value, deviation_b |-> rating_b.deviation]

\* One pass of the loop over the window's games (rater.rs:440-667), on the
\* state acc of the transaction: the tables it writes and the in-memory map.
ProcessGame(acc, g) ==
    LET ea == <<g.id_a, g.char_a>>
        eb == <<g.id_b, g.char_b>>
        named == update_player(update_player(acc, g.id_a, g.name_a, g.game_floor),
                               g.id_b, g.name_b, g.game_floor)
        mem1 == PutIfAbsent(acc.mem, ea, NewEntry)
        rating_a == entry_rating(mem1[ea])
        mem2 == PutIfAbsent(mem1, eb, NewEntry)
        rating_b == entry_rating(mem2[eb])
        pa == a_win_prob(rating_a, rating_b)
        pb == b_win_prob(rating_a, rating_b)
        ka == <<g.id_a, g.char_a, g.char_b>>
        kb == <<g.id_b, g.char_b, g.char_a>>
        cab == <<g.char_a, g.char_b>>
        cba == <<g.char_b, g.char_a>>
        pm0 == PutIfAbsent(PutIfAbsent(acc.pm, ka, ZeroCounters), kb, ZeroCounters)
        gm0 == PutIfAbsent(PutIfAbsent(acc.gm, cab, ZeroCounters), cba, ZeroCounters)
        hm0 == PutIfAbsent(PutIfAbsent(acc.hm, cab, ZeroCounters), cba, ZeroCounters)
        pm1 == player_real(pm0, ka, kb, g.winner)
        est == established(rating_a, rating_b)
        high == est /\ high_rated(rating_a, rating_b)
    IN  [named EXCEPT
            !.mem = record_outcome(mem2, ea, eb, rating_a, rating_b, g.winner),
            !.pm = IF est THEN player_adjusted(pm1, ka, kb, g.winner, pa, pb) ELSE pm1,
            !.gm = IF est THEN global_counters(gm0, cab, cba, g.winner, pa, pb) ELSE gm0,
            !.hm = IF high THEN high_rated_counters(hm0, cab, cba, g.winner, pa, pb)
                   ELSE hm0,
            !.gr = @ (+) SetToBag({SnapshotRow(g, rating_a, rating_b)})]

RECURSIVE ProcessGames(_, _)
\* The loop over the window's games, in the order the query returned them.
ProcessGames(acc, gs) ==
    IF gs = <<>> THEN acc
    ELSE ProcessGames(ProcessGame(acc, Head(gs)), Tail(gs))

\* The row REPLACE INTO player_ratings writes for an entry of the map
\* (rater.rs:669-689).
RatingRow(entry) ==
    [win_count |-> entry.win_count, loss_count |-> entry.loss_count,
     rating |-> new_rating(entry.rating, entry.results)]

\* The loop over the entries of the map that played in the window only.
replace_ratings_played(ratings, mem) ==
    [e \in (DOMAIN ratings) \cup (DOMAIN mem) |->
        IF e \in DOMAIN mem /\ mem[e].results # <<>> THEN RatingRow(mem[e])
        ELSE ratings[e]]

\* The loop over the map (rater.rs:669-689).
replace_ratings(ratings, mem) ==
    [e \in (DOMAIN ratings) \cup (DOMAIN mem) |->
        IF e \in DOMAIN mem THEN RatingRow(mem[e]) ELSE ratings[e]]

\* ----------------------------------------------- update_player_distribution

\* rater.rs:318  (1..=10).chain(std::iter::once(99))
Floors == (1..10) \cup {99}

\* rater.rs:21-23  glicko_to_glicko2, in the unit ratings are kept in here:
\* Glicko points relative to 1500.
glicko_to_glicko2(r) == r - GLICKO_ORIGIN

\* SELECT COUNT(*) FROM games WHERE game_floor = ? (rater.rs:326-332).
games_on_floor(store, f) ==
    LET S == {g \in BagToSet(store) : g.game_floor = f}
    IN  SumOver([g \in S |-> CopiesIn(g, store)], S)

\* The rows written to player_floor_distribution (rater.rs:318-342).
floor_distribution(ps, store) ==
    [f \in Floors |->
        [player_count |-> Cardinality({id \in DOMAIN ps : ps[id].floor = f}),
         game_count |-> games_on_floor(store, f)]]

\* SELECT COUNT(*) FROM player_ratings WHERE value >= ? AND value < ? AND
\* deviation < ? (rater.rs:348-360).
bin_count(ratings, r_min, r_max) ==
    Cardinality({e \in DOMAIN ratings :
        /\ ratings[e].rating.value >= glicko_to_glicko2(r_min)
        /\ ratings[e].rating.value < glicko_to_glicko2(r_max)
        /\ ratings[e].rating.deviation < MAX_DEVIATION})

\* The count of the established ratings up to and including a bound.
cum_count_inclusive(ratings, r_max) ==
    Cardinality({e \in DOMAIN ratings :
        /\ ratings[e].rating.value <= glicko_to_glicko2(r_max)
        /\ ratings[e].rating.deviation < MAX_DEVIATION})

\* SELECT COUNT(*) FROM player_ratings WHERE value < ? AND deviation < ?
\* (rater.rs:366-374).
cum_count(ratings, r_max) ==
    Cardinality({e \in DOMAIN ratings :
        /\ ratings[e].rating.value < glicko_to_glicko2(r_max)
        /\ ratings[e].rating.deviation < MAX_DEVIATION})

\* The rows written to player_rating_distribution (rater.rs:344-384), keyed
\* by min_rating.
rating_distribution(ratings) ==
    LET kept == {r \in 0..(RATING_BINS - 1) :
                    bin_count(ratings, r * BIN_WIDTH, (r + 1) * BIN_WIDTH)
                        >= MIN_BIN_PLAYERS}
    IN  [r_min \in {r * BIN_WIDTH : r \in kept} |->
            [max_rating |-> r_min + BIN_WIDTH,
             player_count |-> bin_count(ratings, r_min, r_min + BIN_WIDTH),
             player_count_cum |-> cum_count(ratings, r_min + BIN_WIDTH)]]

\* ----------------------------------------------------- calc_versus_matchups

\* An f64 win rate, in thousandths, or the NaN of 0.0 / 0.0.
NaN == [nan |-> TRUE, val |-> 0]

Num(x) == [nan |-> FALSE, val |-> x]

\* rater.rs:780  sum / pair_count as f64: NaN when no bucket was summed.
mean(sum, pair_count) ==
    IF pair_count = 0 THEN NaN ELSE Num(sum \div pair_count)

\* rater.rs:792  1.0 - probability
complement(p) == IF p.nan THEN NaN ELSE Num(ProbScale - p.val)

\* The WHERE clause of rater.rs:709 on a game_ratings row.
qualifying(r) ==
    /\ r.value_a > HIGH_RATING /\ r.deviation_a < MAX_DEVIATION
    /\ r.value_b > HIGH_RATING /\ r.deviation_b < MAX_DEVIATION

\* games NATURAL JOIN game_ratings WHERE ... (rater.rs:706-709): the pairs of
\* a game and a snapshot that agree on timestamp, id_a and id_b.
joined_rows(store, gr) ==
    {j \in BagToSet(store) \X BagToSet(gr) :
        /\ GameKey(j[1]) = <<j[2].timestamp, j[2].id_a, j[2].id_b>>
        /\ qualifying(j[2])}

\* The sides ordered by character, the winner kept as the seats had it.
canonical_unflipped(g, r) ==
    IF g.char_a < g.char_b
    THEN {[a |-> <<g.id_a, g.char_a>>, b |-> <<g.id_b, g.char_b>>,
           v_a |-> r.value_a, v_b |-> r.value_b, winner |-> g.winner]}
    ELSE IF g.char_b < g.char_a
    THEN {[a |-> <<g.id_b, g.char_b>>, b |-> <<g.id_a, g.char_a>>,
           v_a |-> r.value_b, v_b |-> r.value_a, winner |-> g.winner]}
    ELSE {}

\* rater.rs:731-745  the sides ordered by character, the winner flipped with
\* them; nothing (the empty set) for a game of one character.
canonical(g, r) ==
    IF g.char_a < g.char_b
    THEN {[a |-> <<g.id_a, g.char_a>>, b |-> <<g.id_b, g.char_b>>,
           v_a |-> r.value_a, v_b |-> r.value_b, winner |-> g.winner]}
    ELSE IF g.char_b < g.char_a
    THEN {[a |-> <<g.id_b, g.char_b>>, b |-> <<g.id_a, g.char_a>>,
           v_a |-> r.value_b, v_b |-> r.value_a,
           winner |-> IF g.winner = 1 THEN 2 ELSE 1]}
    ELSE {}

\* The map pairs after the loop over the joined rows (rater.rs:722-761):
\* <<a, b>> -> the weighted wins of a, the weighted wins of b, the games.
versus_pairs(store, gr) ==
    LET J == joined_rows(store, gr)
        C == UNION {{<<j, c>> : c \in canonical(j[1], j[2])} : j \in J}
        key(x) == <<x[2].a, x[2].b>>
        copies(x) == CopiesIn(x[1][1], store) * CopiesIn(x[1][2], gr)
        win_chance(x) == Logistic(x[2].v_a - x[2].v_b)
    IN  [k \in {key(x) : x \in C} |->
            LET B == {x \in C : key(x) = k}
            IN  [wins |-> SumOver([x \in B |->
                            IF x[2].winner = 1
                            THEN copies(x) * (ProbScale - win_chance(x)) ELSE 0], B),
                 losses |-> SumOver([x \in B |->
                            IF x[2].winner = 2
                            THEN copies(x) * win_chance(x) ELSE 0], B),
                 games |-> SumOver([x \in B |-> copies(x)], B)]]

\* The rows written to versus_matchups from the map (rater.rs:767-796): two
\* for every pair of characters a < b of the roster.
versus_table(pairs) ==
    LET chars == 0..(RosterSize - 1)
        bucket(a, b) == {k \in DOMAIN pairs : k[1][2] = a /\ k[2][2] = b}
        share(k) == (pairs[k].wins * ProbScale) \div (pairs[k].wins + pairs[k].losses)
        sum(a, b) == SumOver([k \in bucket(a, b) |-> share(k)], bucket(a, b))
        game_count(a, b) ==
            SumOver([k \in bucket(a, b) |-> pairs[k].games], bucket(a, b))
        probability(a, b) == mean(sum(a, b), Cardinality(bucket(a, b)))
    IN  [ab \in {x \in chars \X chars : x[1] # x[2]} |->
            LET a == IF ab[1] < ab[2] THEN ab[1] ELSE ab[2]
                b == IF ab[1] < ab[2] THEN ab[2] ELSE ab[1]
            IN  [game_count |-> game_count(a, b),
                 pair_count |-> Cardinality(bucket(a, b)),
                 win_rate |-> IF ab[1] < ab[2] THEN probability(a, b)
                              ELSE complement(probability(a, b))]]

\* ------------------------------------------------------------------ actions

\* The instants the clock is read at: the last one at which the loop's guard
\* still refuses the first window, and for every window the first one at which
\* the guard lets it run.
Instants ==
    {InitialCursor + RATING_PERIOD + GUARD_SLACK}
        \cup {InitialCursor + k * RATING_PERIOD + GUARD_SLACK + 1 : k \in 1..MaxWindows}

\* A store as init.sql leaves it, and both tasks before their first tick.
Init ==
    /\ games = EmptyBag
    /\ players = EmptyTable
    /\ player_names = {}
    /\ player_ratings = EmptyTable
    /\ game_ratings = EmptyBag
    /\ player_matchups = EmptyTable
    /\ global_matchups = EmptyTable
    /\ high_rated_matchups = EmptyTable
    /\ versus_matchups = EmptyTable
    /\ player_floor_distribution = EmptyTable
    /\ player_rating_distribution = EmptyTable
    /\ last_update = InitialCursor
    /\ now = InitialCursor
    /\ page_diag = "none"
    /\ replays = NoReplays
    /\ rate_pc = "idle"
    /\ last_timestamp = InitialCursor
    /\ rate_games = EmptyBag
    /\ rate_players = EmptyTable
    /\ last_rating_timestmap = InitialCursor

\* Time passes, to the next instant the clock is read at.
Tick ==
    /\ \E t \in Instants :
          /\ t > now
          /\ \A u \in Instants : u > now => t <= u
          /\ now' = t
    /\ UNCHANGED <<games, players, player_names, player_ratings, game_ratings,
                   player_matchups, global_matchups, high_rated_matchups,
                   versus_matchups, player_floor_distribution,
                   player_rating_distribution, last_update,
                   page_diag, replays, rate_pc,
                   last_timestamp, rate_games, rate_players, last_rating_timestmap>>

\* grab_games from the return of get_replays on (rater.rs:223-249): the
\* count, the transaction that adds every replay, the count again and the
\* page-count diagnostic.
store_replays(batch) ==
    LET db == add_games([players |-> players, player_names |-> player_names,
                         games |-> games], batch)
        old_count == BagCardinality(games)
        count == BagCardinality(db.games)
    IN  /\ count <= MaxGames
        /\ games' = db.games
        /\ players' = db.players
        /\ player_names' = db.player_names
        /\ page_diag' = PageDiag(count - old_count, Len(batch))

\* grab_games (rater.rs:210-254): one ingest tick, on a batch of matches
\* played so far.
grab_games ==
    /\ replays = NoReplays
    /\ \E batch \in Batches({m \in Matches : m.timestamp <= now}) :
          store_replays(batch)
    /\ replays' = NoReplays
    /\ UNCHANGED <<player_ratings, game_ratings, player_matchups, global_matchups,
                   high_rated_matchups, versus_matchups, player_floor_distribution,
                   player_rating_distribution, last_update, now, rate_pc,
                   last_timestamp, rate_games, rate_players, last_rating_timestmap>>

\* The loop entered as soon as the window is over, without the minute of
\* slack.
update_ratings_read_eager ==
    /\ rate_pc = "idle"
    /\ now - last_rating_timestmap >= RATING_PERIOD
    /\ last_timestamp' = last_update
    /\ rate_games' = window_games(games, last_update, next_timestamp(last_update))
    /\ rate_players' = load_players(player_ratings)
    /\ rate_pc' = "tx"
    /\ UNCHANGED <<games, players, player_names, player_ratings, game_ratings,
                   player_matchups, global_matchups, high_rated_matchups,
                   versus_matchups, player_floor_distribution,
                   player_rating_distribution, last_update, now,
                   page_diag, replays,
                   last_rating_timestmap>>

\* update_ratings_continuous enters its loop (rater.rs:196) and update_ratings
\* reads the cursor, the games of the window and the rated players
\* (rater.rs:389-436).  The three reads are one step: the ingest task writes
\* neither config nor player_ratings, so a batch it commits between two of the
\* reads has the effect of one committed before the step (when it precedes the
\* read of games) or after it.
update_ratings_read ==
    /\ rate_pc = "idle"
    /\ now - last_rating_timestmap > RATING_PERIOD + GUARD_SLACK
    /\ last_timestamp' = last_update
    /\ rate_games' = window_games(games, last_update, next_timestamp(last_update))
    /\ rate_players' = load_players(player_ratings)
    /\ rate_pc' = "tx"
    /\ UNCHANGED <<games, players, player_names, player_ratings, game_ratings,
                   player_matchups, global_matchups, high_rated_matchups,
                   versus_matchups, player_floor_distribution,
                   player_rating_distribution, last_update, now,
                   page_diag, replays,
                   last_rating_timestmap>>

\* The state the transaction of update_ratings starts from (rater.rs:438).
TxStart ==
    [players |-> players, player_names |-> player_names, mem |-> rate_players,
     pm |-> player_matchups, gm |-> global_matchups, hm |-> high_rated_matchups,
     gr |-> game_ratings]

\* update_ratings runs its transaction, on the games in the order the query
\* returned them, commits it and returns the new cursor (rater.rs:438-696);
\* the rating task goes on at `then`.
update_ratings_returns(then) ==
    /\ rate_pc = "tx"
    /\ \E order \in Orders(rate_games) :
          \E acc \in {ProcessGames(TxStart, order)} :
              /\ players' = acc.players
              /\ player_names' = acc.player_names
              /\ player_matchups' = acc.pm
              /\ global_matchups' = acc.gm
              /\ high_rated_matchups' = acc.hm
              /\ game_ratings' = acc.gr
              /\ player_ratings' = replace_ratings(player_ratings, acc.mem)
    /\ last_update' = next_timestamp(last_timestamp)
    /\ last_rating_timestmap' = next_timestamp(last_timestamp)
    /\ rate_pc' = then
    /\ rate_games' = EmptyBag
    /\ rate_players' = EmptyTable
    /\ UNCHANGED <<games, versus_matchups, player_floor_distribution,
                   player_rating_distribution, now,
                   page_diag, replays, last_timestamp>>

\* The commit of update_ratings seen on the tables the two tasks read: the
\* rest of the loop's pass writes none of them, and the task is "idle" until
\* it reads config again.
update_ratings_commit == update_ratings_returns("idle")

\* The commit of update_ratings in the loop of rater.rs:196-200: the
\* distribution snapshot is next.
update_ratings_commit_in_loop == update_ratings_returns("dist")

\* What a transaction that is dropped without commit leaves of the tables it
\* wrote: the state it started from (rusqlite rolls back on drop).
rollback_partial(before, partial) == partial

rollback(before, partial) == before

\* A statement of the transaction of update_ratings fails, after some of the
\* window's games: every execute is unwrapped and a winner other than 1 and 2
\* panics (rater.rs:649), so the task panics with the transaction open, run
\* panics on the join error (rater.rs:167-171) and the program is started
\* again.
update_ratings_panic ==
    /\ rate_pc = "tx"
    /\ \E order \in Orders(rate_games) : \E k \in 0..Len(order) :
          LET left == rollback(TxStart, ProcessGames(TxStart, SubSeq(order, 1, k)))
          IN  /\ players' = left.players
              /\ player_names' = left.player_names
              /\ player_matchups' = left.pm
              /\ global_matchups' = left.gm
              /\ high_rated_matchups' = left.hm
              /\ game_ratings' = left.gr
    /\ rate_pc' = "boot"
    /\ rate_games' = EmptyBag
    /\ rate_players' = EmptyTable
    /\ UNCHANGED <<games, player_ratings, versus_matchups,
                   player_floor_distribution, player_rating_distribution,
                   last_update, now, page_diag, replays, last_timestamp,
                   last_rating_timestmap>>

\* update_ratings_continuous starts (rater.rs:185-191): it derives the versus
\* table and reads the cursor.
startup ==
    /\ rate_pc = "boot"
    /\ versus_matchups' = versus_table(versus_pairs(games, game_ratings))
    /\ last_rating_timestmap' = last_update
    /\ rate_pc' = "idle"
    /\ UNCHANGED <<games, players, player_names, player_ratings, game_ratings,
                   player_matchups, global_matchups, high_rated_matchups,
                   player_floor_distribution, player_rating_distribution,
                   last_update, now,
                   page_diag, replays, last_timestamp, rate_games,
                   rate_players>>

\* update_player_distribution (rater.rs:310-387), the call of rater.rs:198:
\* one transaction that replaces both distribution tables.
update_player_distribution ==
    /\ rate_pc = "dist"
    /\ player_floor_distribution' = floor_distribution(players, games)
    /\ player_rating_distribution' = rating_distribution(player_ratings)
    /\ rate_pc' = "versus"
    /\ UNCHANGED <<games, players, player_names, player_ratings, game_ratings,
                   player_matchups, global_matchups, high_rated_matchups,
                   versus_matchups, last_update, now,
                   page_diag, replays, last_timestamp,
                   rate_games, rate_players, last_rating_timestmap>>

\* calc_versus_matchups (rater.rs:699-801), the call of rater.rs:199: the
\* join is read and one transaction replaces versus_matchups; the loop then
\* evaluates its guard again.
calc_versus_matchups ==
    /\ rate_pc = "versus"
    /\ versus_matchups' = versus_table(versus_pairs(games, game_ratings))
    /\ rate_pc' = "idle"
    /\ UNCHANGED <<games, players, player_names, player_ratings, game_ratings,
                   player_matchups, global_matchups, high_rated_matchups,
                   player_floor_distribution, player_rating_distribution,
                   last_update, now,
                   page_diag, replays, last_timestamp, rate_games,
                   rate_players, last_rating_timestmap>>

\* The JSON file that holds the matches of a set, oldest first.
FileOf(S) ==
    CHOOSE f \in [1..Cardinality(S) -> S] :
        /\ \A i, j \in 1..Cardinality(S) : i # j => f[i] # f[j]
        /\ \A i, j \in 1..Cardinality(S) : i < j => f[i].timestamp <= f[j].timestamp

\* A match as the other player's client reports it: the seats exchanged and
\* the winner with them.
Reseated(m) ==
    [m EXCEPT !.a = m.b, !.b = m.a,
              !.winner = IF m.winner = "Player1" THEN "Player2" ELSE "Player1"]

\* The files load_json_data may be given: up to MaxGames matches of the feed,
\* as it returns them or every one of them reseated.
JsonFiles ==
    LET files == {FileOf(S) : S \in {T \in SUBSET Matches : Cardinality(T) <= MaxGames}}
    IN  files \cup {[i \in DOMAIN f |-> Reseated(f[i])] : f \in files}

\* load_json_data (rater.rs:84-164) on one file of an empty store: add_game
\* of every record, in one transaction; the file holds matches played so far
\* and the rating task is started after it.
load_json_data ==
    /\ rate_pc = "import"
    /\ \E file \in {f \in JsonFiles : \A i \in DOMAIN f : f[i].timestamp <= now} :
          LET db == add_games([players |-> players, player_names |-> player_names,
                               games |-> games], file)
          IN  /\ games' = db.games
              /\ players' = db.players
              /\ player_names' = db.player_names
    /\ rate_pc' = "boot"
    /\ UNCHANGED <<player_ratings, game_ratings, player_matchups, global_matchups,
                   high_rated_matchups, versus_matchups, player_floor_distribution,
                   player_rating_distribution, last_update, now,
                   page_diag, replays,
                   last_timestamp, rate_games, rate_players, last_rating_timestmap>>

\* The two tasks of run (rater.rs:166-172) on the tables they read: games,
\* players, player_names, the ratings, the matchup counters and config.
Next ==
    \/ Tick
    \/ grab_games
    \/ update_ratings_read
    \/ update_ratings_commit

Spec == Init /\ [][Next]_vars

\* An empty store before the import of a JSON file.
InitLoop ==
    /\ games = EmptyBag
    /\ players = EmptyTable
    /\ player_names = {}
    /\ player_ratings = EmptyTable
    /\ game_ratings = EmptyBag
    /\ player_matchups = EmptyTable
    /\ global_matchups = EmptyTable
    /\ high_rated_matchups = EmptyTable
    /\ versus_matchups = EmptyTable
    /\ player_floor_distribution = EmptyTable
    /\ player_rating_distribution = EmptyTable
    /\ last_update = InitialCursor
    /\ now = InitialCursor
    /\ page_diag = "none"
    /\ replays = NoReplays
    /\ rate_pc = "import"
    /\ last_timestamp = InitialCursor
    /\ rate_games = EmptyBag
    /\ rate_players = EmptyTable
    /\ last_rating_timestmap = InitialCursor

\* update_ratings_continuous (rater.rs:184-202) step by step, on a store
\* filled by load_json_data: every pass of its loop is three transactions.
NextLoop ==
    \/ load_json_data
    \/ Tick
    \/ startup
    \/ update_ratings_read
    \/ update_ratings_commit_in_loop
    \/ update_ratings_panic
    \/ update_player_distribution
    \/ calc_versus_matchups

LoopSpec == InitLoop /\ [][NextLoop]_vars

\* A step of the body of update_ratings_continuous: the function runs it as
\* soon as it can, and update_ratings returns or panics.
LoopStep ==
    \/ update_ratings_read
    \/ update_ratings_commit_in_loop
    \/ update_ratings_panic
    \/ update_player_distribution
    \/ calc_versus_matchups

\* update_ratings_continuous, its task scheduled: interval.tick() completes
\* every minute (rater.rs:193-195) and nothing in the loop's body awaits.
FairLoopSpec == InitLoop /\ [][NextLoop]_vars /\ WF_vars(LoopStep)

\* The most entities of one kind in a population.
MaxKind == 2

\* A player_ratings table told by how many of its entities are of each kind:
\*   below    established, 1499 Glicko points (the last value of a bin)
\*   floor    established, 1500 (the first value of the next bin)
\*   top      established, 1549 (the last value of that bin)
\*   next     established, 1550 (the first value of the bin after)
\*   doubtful 1525 with a deviation of MAX_DEVIATION: not established
\* in Glicko points relative to GLICKO_ORIGIN, as ratings are kept here.
Population(c) ==
    LET n == c.below + c.floor + c.top + c.next + c.doubtful
        kind(i) ==
            IF i <= c.below THEN [value |-> -1, deviation |-> MAX_DEVIATION - 1]
            ELSE IF i <= c.below + c.floor
                THEN [value |-> 0, deviation |-> MAX_DEVIATION - 1]
            ELSE IF i <= c.below + c.floor + c.top
                THEN [value |-> BIN_WIDTH - 1, deviation |-> MAX_DEVIATION - 1]
            ELSE IF i <= c.below + c.floor + c.top + c.next
                THEN [value |-> BIN_WIDTH, deviation |-> MAX_DEVIATION - 1]
            ELSE [value |-> BIN_WIDTH \div 2, deviation |-> MAX_DEVIATION]
    IN  [e \in {<<i, 0>> : i \in 1..n} |->
            [win_count |-> 1, loss_count |-> 1,
             rating |-> [value |-> kind(e[1]).value,
                         deviation |-> kind(e[1]).deviation,
                         volatility |-> Unrated.volatility]]]

\* The populations reset_distribution is run on: a bin is one entity short of
\* a row, has just enough, or more.
Populations ==
    {Population([below |-> b, floor |-> f, top |-> t, next |-> x, doubtful |-> d]) :
        b \in {0, MIN_BIN_PLAYERS}, f \in {0, MIN_BIN_PLAYERS - 1, MIN_BIN_PLAYERS},
        t \in 0..MaxKind, x \in {0, 1, MIN_BIN_PLAYERS}, d \in {0, 1}}

\* The ratings of an earlier hour: enough entities in the bin below 1500.
EarlierPopulation ==
    Population([below |-> MIN_BIN_PLAYERS, floor |-> 0, top |-> 0, next |-> 0,
                doubtful |-> 0])

\* A store before reset_distribution (rater.rs:76-82): games and players as
\* the import of at most one match left them, the ratings of a population,
\* and the distribution tables empty or as a run on earlier ratings, before
\* the import, left them.
InitDist ==
    /\ \E file \in {<<>>} \cup {<<m>> : m \in Matches} :
          LET db == add_games([players |-> EmptyTable, player_names |-> {},
                               games |-> EmptyBag], file)
          IN  /\ games = db.games
              /\ players = db.players
              /\ player_names = db.player_names
    /\ player_ratings \in Populations
    /\ \/ /\ player_rating_distribution = EmptyTable
          /\ player_floor_distribution = EmptyTable
       \/ /\ player_rating_distribution = rating_distribution(EarlierPopulation)
          /\ player_floor_distribution = floor_distribution(EmptyTable, EmptyBag)
    /\ game_ratings = EmptyBag
    /\ player_matchups = EmptyTable
    /\ global_matchups = EmptyTable
    /\ high_rated_matchups = EmptyTable
    /\ versus_matchups = EmptyTable
    /\ last_update = InitialCursor
    /\ now = InitialCursor
    /\ page_diag = "none"
    /\ replays = NoReplays
    /\ rate_pc = "dist"
    /\ last_timestamp = InitialCursor
    /\ rate_games = EmptyBag
    /\ rate_players = EmptyTable
    /\ last_rating_timestmap = InitialCursor

\* reset_distribution (rater.rs:76-82): update_player_distribution, once.
NextDist == update_player_distribution

DistSpec == InitDist /\ [][NextDist]_vars

\* The most replays one fetch of pull returns.
MaxBatch == 3

\* What get_replays may return to pull: up to MaxBatch of the matches of the
\* feed, each once.
PullBatches ==
    {FileOf(S) : S \in {T \in SUBSET Matches : Cardinality(T) <= MaxBatch}}

\* pull (rater.rs:204-208) is run, and get_replays returns (rater.rs:211-221).
get_replays ==
    /\ ~replays.fetched
    /\ \E batch \in PullBatches :
          /\ \A i \in DOMAIN batch : batch[i].timestamp <= now
          /\ replays' = [fetched |-> TRUE, list |-> batch]
    /\ UNCHANGED <<games, players, player_names, player_ratings, game_ratings,
                   player_matchups, global_matchups, high_rated_matchups,
                   versus_matchups, player_floor_distribution,
                   player_rating_distribution, last_update, now, page_diag,
                   rate_pc, last_timestamp, rate_games, rate_players,
                   last_rating_timestmap>>

\* pull goes on: grab_games stores what was fetched and returns.
pull_stores ==
    /\ replays.fetched
    /\ store_replays(replays.list)
    /\ replays' = NoReplays
    /\ UNCHANGED <<player_ratings, game_ratings, player_matchups, global_matchups,
                   high_rated_matchups, versus_matchups, player_floor_distribution,
                   player_rating_distribution, last_update, now, rate_pc,
                   last_timestamp, rate_games, rate_players, last_rating_timestmap>>

\* pull, run again and again on the store, no rating task with it.
NextPull ==
    \/ Tick
    \/ get_replays
    \/ pull_stores

PullSpec == Init /\ [][NextPull]_vars

\* ------------------------------------------------------------------- claims

\* The step that commits the transaction of update_ratings.
CommitStep == rate_pc = "tx" /\ rate_pc' \in {"idle", "dist"}

\* The step in which update_ratings reads the window.
ReadStep == rate_pc = "idle" /\ rate_pc' = "tx"

\* C1: config.last_update never decreases: the commit of update_ratings adds
\* exactly RATING_PERIOD to it, whatever the window holds, and hands the new
\* value to the loop; every other step of either task leaves it alone.
C1_CursorAdvancesByOnePeriod ==
    [][IF CommitStep
       THEN /\ last_update' = last_update + RATING_PERIOD
            /\ last_rating_timestmap' = last_update'
       ELSE last_update' = last_update]_vars

\* Two windows are committed and one game in all was rated: one of the two
\* windows held no game.
C1_Witness ==
    /\ last_update = InitialCursor + 2 * RATING_PERIOD
    /\ BagCardinality(game_ratings) = 1

\* The (timestamp, id_a, id_b) keys of the rows of a games table.
GameKeys(store) == {GameKey(g) : g \in BagToSet(store)}

\* The tables the ingest transaction writes.
IngestDb == [players |-> players, player_names |-> player_names, games |-> games]

\* C2: the games table holds at most one row per (timestamp, id_a, id_b), and
\* add_game of a match whose key is stored leaves the table as it is, whatever
\* the other fields of the match are.
C2_OneRowPerKey ==
    /\ \A g \in BagToSet(games) : CopiesIn(g, games) = 1
    /\ \A g1, g2 \in BagToSet(games) : GameKey(g1) = GameKey(g2) => g1 = g2
    /\ \A m \in Matches :
          GameKey(GameRow(m)) \in GameKeys(games) => add_game(IngestDb, m).games = games

\* The last ingest tick fetched records of stored matches only, or one match
\* twice, and the store holds a match the feed has a second record of.
C2_Witness ==
    /\ page_diag = "quiet"
    /\ \E m \in Matches :
          GameKey(GameRow(m)) \in GameKeys(games) /\ ~BagIn(GameRow(m), games)

\* player_ratings after one run of update_ratings on the store, from the
\* cursor `from` (rater.rs:389-696).
RatingsAfterWindow(store, ratings, from) ==
    LET order == CHOOSE o \in Orders(window_games(store, from, next_timestamp(from))) : TRUE
        acc == ProcessGames([TxStart EXCEPT !.mem = load_players(ratings)], order)
    IN  replace_ratings(ratings, acc.mem)

RECURSIVE RatingsAfterWindows(_, _, _, _)
\* player_ratings after n runs of update_ratings.
RatingsAfterWindows(store, ratings, from, n) ==
    IF n = 0 THEN ratings
    ELSE RatingsAfterWindows(store, RatingsAfterWindow(store, ratings, from),
                             next_timestamp(from), n - 1)

\* The windows left up to the clock's horizon.
WindowsLeft == MaxWindows - (last_update - InitialCursor) \div RATING_PERIOD

\* C3: between two rating ticks, feeding a batch twice and then running the
\* windows, or feeding it, running a window and feeding it again before the
\* other windows, ends in the player_ratings table of feeding it once.
C3_FeedTwiceSameRatings ==
    rate_pc = "idle" =>
        \A batch \in Batches(Matches) :
            LET once == add_games(IngestDb, batch)
                twice == add_games(once, batch)
                n == WindowsLeft
                final == RatingsAfterWindows(once.games, player_ratings, last_update, n)
            IN  /\ RatingsAfterWindows(twice.games, player_ratings, last_update, n) = final
                /\ n > 0 =>
                      RatingsAfterWindows(twice.games,
                          RatingsAfterWindow(once.games, player_ratings, last_update),
                          next_timestamp(last_update), n - 1) = final

\* A batch of stored matches was fed again and windows were run on them.
C3_Witness ==
    /\ page_diag = "quiet"
    /\ rate_pc = "idle"
    /\ BagCardinality(game_ratings) >= 2
    /\ BagCardinality(games) = BagCardinality(game_ratings)

\* The sum of win_count + loss_count over the rows of a ratings table.
TotalCounts(ratings) ==
    SumOver([e \in DOMAIN ratings |-> ratings[e].win_count + ratings[e].loss_count],
            DOMAIN ratings)

\* C4: the win and loss counts of player_ratings add up to twice the number of
\* game_ratings rows.
C4_CountsAreTwiceTheGames ==
    TotalCounts(player_ratings) = 2 * BagCardinality(game_ratings)

\* A game of an entity against itself is rated, and so is another game of
\* the same window.
C4_Witness ==
    \E r1, r2 \in BagToSet(game_ratings) :
        /\ r1.id_a = r1.id_b
        /\ r2.id_a # r2.id_b
        /\ r1.timestamp = r2.timestamp

\* The two (player, character) entities of a game.
EntityA(g) == <<g.id_a, g.char_a>>

EntityB(g) == <<g.id_b, g.char_b>>

\* The rating an entity has in the committed store: its player_ratings row,
\* or the unrated defaults.
StartRating(e) ==
    IF e \in DOMAIN player_ratings THEN player_ratings[e].rating ELSE Unrated

\* The (timestamp, id_a, id_b) of the rows of a game_ratings table.
SnapshotKeys(gr) == {<<r.timestamp, r.id_a, r.id_b>> : r \in BagToSet(gr)}

\* C5: a stored game the cursor has passed has a player_ratings row for both
\* of its entities and a game_ratings snapshot.
C5_NoStoredGameLeftUnrated ==
    \A g \in BagToSet(games) :
        (InitialCursor <= g.timestamp /\ g.timestamp < last_update) =>
            /\ EntityA(g) \in DOMAIN player_ratings
            /\ EntityB(g) \in DOMAIN player_ratings
            /\ GameKey(g) \in SnapshotKeys(game_ratings)

\* The sum of a counter over the rows of a matchup table.
Total(t, field) == SumOver([k \in DOMAIN t |-> t[k][field]], DOMAIN t)

\* Every snapshot is of a closed window and no game has two; each rated game
\* added one real counter to each side's matchup row and one count to each
\* side's rating.
C6_OneSnapshotPerGame ==
    /\ \A r \in BagToSet(game_ratings) :
          /\ CopiesIn(r, game_ratings) = 1
          /\ InitialCursor <= r.timestamp /\ r.timestamp < last_update
    /\ \A r1, r2 \in BagToSet(game_ratings) :
          (r1.timestamp = r2.timestamp /\ r1.id_a = r2.id_a /\ r1.id_b = r2.id_b)
              => r1 = r2
    /\ Total(player_matchups, "wins_real") = BagCardinality(game_ratings)
    /\ Total(player_matchups, "losses_real") = BagCardinality(game_ratings)
    /\ TotalCounts(player_ratings) = 2 * BagCardinality(game_ratings)

\* The read takes the stored games of [last_update, last_update + RP), a game
\* at last_update + RP not among them, and the commit adds one snapshot for
\* each game read and for no other.
C6_WindowStep ==
    /\ ReadStep =>
          \A g \in BagToSet(games) :
              BagIn(g, rate_games') <=>
                  (last_update <= g.timestamp
                      /\ g.timestamp < last_update + RATING_PERIOD)
    /\ CommitStep =>
          /\ SnapshotKeys(game_ratings') \ SnapshotKeys(game_ratings) = GameKeys(rate_games)
          /\ BagCardinality(game_ratings')
                = BagCardinality(game_ratings) + BagCardinality(rate_games)

\* C6: the windows are half-open, disjoint and contiguous: a game in the store
\* when its window is read is rated in that window and in no other, so it has
\* exactly one game_ratings row and counts once for each side.
C6_HalfOpenWindows == [](C6_OneSnapshotPerGame) /\ [][C6_WindowStep]_vars

\* The games of the last second of the first window and of the first second
\* of the second are both rated.
C6_Witness ==
    /\ \E r \in BagToSet(game_ratings) : r.timestamp = InitialCursor + RATING_PERIOD - 1
    /\ \E r \in BagToSet(game_ratings) : r.timestamp = InitialCursor + RATING_PERIOD

RECURSIVE ExpectedResults(_, _)
\* The outcomes of entity e in the games G, each with the opponent's rating
\* of the committed store.
ExpectedResults(e, G) ==
    IF G = {} THEN <<>>
    ELSE LET g == CHOOSE x \in G : TRUE
             as_a == IF EntityA(g) # e THEN <<>>
                     ELSE IF g.winner = 1
                          THEN <<GameResultWin(StartRating(EntityB(g)))>>
                          ELSE <<GameResultLoss(StartRating(EntityB(g)))>>
             as_b == IF EntityB(g) # e THEN <<>>
                     ELSE IF g.winner = 1
                          THEN <<GameResultLoss(StartRating(EntityA(g)))>>
                          ELSE <<GameResultWin(StartRating(EntityA(g)))>>
         IN  as_a \o as_b \o ExpectedResults(e, G \ {g})

\* The games of a set whose two start ratings are established.
EstablishedGames(G) ==
    {g \in G : /\ StartRating(EntityA(g)).deviation < MAX_DEVIATION
               /\ StartRating(EntityB(g)).deviation < MAX_DEVIATION}

\* The games of a set whose two start ratings are established and high.
HighRatedGames(G) ==
    {g \in EstablishedGames(G) : /\ StartRating(EntityA(g)).value > HIGH_RATING
                                 /\ StartRating(EntityB(g)).value > HIGH_RATING}

\* The loser's win probability of a game, from the start ratings.
StartWeight(g) ==
    LET p_a == Logistic(StartRating(EntityA(g)).value - StartRating(EntityB(g)).value)
    IN  IF g.winner = 1 THEN ProbScale - p_a ELSE p_a

\* C7: the commit of a window writes, for every game, the snapshot of the two
\* ratings of the store as it was before the window; it gates and weighs the
\* matchup counters by those ratings; and it writes for every entity
\* new_rating of that rating and of all its outcomes of the window, each
\* against the opponent's rating before the window.
C7_WindowStartRatings ==
    [][CommitStep =>
        LET G == BagToSet(rate_games)
        IN  /\ \A g \in G :
                  BagIn(SnapshotRow(g, StartRating(EntityA(g)), StartRating(EntityB(g))),
                        game_ratings')
            /\ \A e \in DOMAIN player_ratings' :
                  player_ratings'[e].rating
                      = new_rating(StartRating(e), ExpectedResults(e, G))
            /\ Total(global_matchups', "wins_real") - Total(global_matchups, "wins_real")
                  = Cardinality(EstablishedGames(G))
            /\ Total(high_rated_matchups', "wins_real")
                  - Total(high_rated_matchups, "wins_real")
                  = Cardinality(HighRatedGames(G))
            /\ Total(global_matchups', "wins_adjusted")
                  - Total(global_matchups, "wins_adjusted")
                  = SumOver([g \in G |-> StartWeight(g)], EstablishedGames(G))]_vars

\* Two games of one window are rated, both with a seat a that had a
\* player_ratings row when the window started.
C7_Witness ==
    \E r1, r2 \in BagToSet(game_ratings) :
        /\ r1 # r2
        /\ r1.timestamp = r2.timestamp
        /\ r1.deviation_a < Unrated.deviation
        /\ r2.deviation_a < Unrated.deviation

\* What a window leaves behind when its games are processed in an order: the
\* player_ratings rows, the counts and the bag of outcomes of every entity,
\* the three matchup tables and the snapshots.
WindowView(order) ==
    LET acc == ProcessGames(TxStart, order)
    IN  [ratings |-> replace_ratings(player_ratings, acc.mem),
         counts |-> [e \in DOMAIN acc.mem |->
                        <<acc.mem[e].win_count, acc.mem[e].loss_count>>],
         outcomes |-> [e \in DOMAIN acc.mem |-> SeqToBag(acc.mem[e].results)],
         pm |-> acc.pm, gm |-> acc.gm, hm |-> acc.hm, gr |-> acc.gr]

\* C8: every order of the games of a window leaves the same player_ratings
\* rows, outcomes, matchup counters and snapshots.
C8_OrderIndependent ==
    rate_pc = "tx" =>
        \A o1, o2 \in Orders(rate_games) : WindowView(o1) = WindowView(o2)

\* A window of two games that share an entity is about to be processed.
C8_Witness ==
    /\ rate_pc = "tx"
    /\ \E g1, g2 \in BagToSet(rate_games) :
          g1 # g2 /\ {EntityA(g1), EntityB(g1)} \cap {EntityA(g2), EntityB(g2)} # {}

\* The state of the transaction before the i-th game of an order.
Before(order, i) == ProcessGames(TxStart, SubSeq(order, 1, i - 1))

\* A counter of a row of a matchup table, 0 when the table has no such row.
Counter(t, k, field) == IF k \in DOMAIN t THEN t[k][field] ELSE 0

\* C9: each game of a window, established or not, leaves the rows
\* (id_a, char_a, char_b) and (id_b, char_b, char_a) in player_matchups and
\* adds one to wins_real of the winner's row and one to losses_real of the
\* loser's; no other real counter changes.
C9_TwoRealCounters ==
    rate_pc = "tx" =>
        \A order \in Orders(rate_games) : \A i \in 1..Len(order) :
            LET g == order[i]
                b == Before(order, i).pm
                a == ProcessGame(Before(order, i), g).pm
                ka == <<g.id_a, g.char_a, g.char_b>>
                kb == <<g.id_b, g.char_b, g.char_a>>
                winner_row == IF g.winner = 1 THEN ka ELSE kb
                loser_row == IF g.winner = 1 THEN kb ELSE ka
            IN  /\ DOMAIN a = (DOMAIN b) \cup {ka, kb}
                /\ \A k \in DOMAIN a :
                      /\ a[k].wins_real = Counter(b, k, "wins_real")
                                            + (IF k = winner_row THEN 1 ELSE 0)
                      /\ a[k].losses_real = Counter(b, k, "losses_real")
                                              + (IF k = loser_row THEN 1 ELSE 0)

\* A window holds a game seat b won, between two established ratings.
C9_Witness ==
    /\ rate_pc = "tx"
    /\ \E g \in EstablishedGames(BagToSet(rate_games)) : g.winner = 2

\* C10: a game with a side whose rating before the window is not established
\* changes no adjusted counter of player_matchups and no counter of
\* global_matchups and high_rated_matchups; it only makes the rows
\* (char_a, char_b) and (char_b, char_a) exist, with zero counters when new.
C10_UnestablishedGameFrame ==
    rate_pc = "tx" =>
        \A order \in Orders(rate_games) : \A i \in 1..Len(order) :
            LET g == order[i]
                b == Before(order, i)
                a == ProcessGame(b, g)
                cab == <<g.char_a, g.char_b>>
                cba == <<g.char_b, g.char_a>>
                withRows(t) == PutIfAbsent(PutIfAbsent(t, cab, ZeroCounters),
                                           cba, ZeroCounters)
            IN  g \notin EstablishedGames({g}) =>
                    /\ \A k \in DOMAIN a.pm :
                          /\ a.pm[k].wins_adjusted = Counter(b.pm, k, "wins_adjusted")
                          /\ a.pm[k].losses_adjusted = Counter(b.pm, k, "losses_adjusted")
                    /\ a.gm = withRows(b.gm)
                    /\ a.hm = withRows(b.hm)

\* A window holds a game of an established rating against an unestablished
\* one.
C10_Witness ==
    /\ rate_pc = "tx"
    /\ \E g \in BagToSet(rate_games) :
          /\ StartRating(EntityA(g)).deviation >= MAX_DEVIATION
          /\ StartRating(EntityB(g)).deviation < MAX_DEVIATION

\* The four counters of a matchup row.
CounterFields == {"wins_real", "losses_real", "wins_adjusted", "losses_adjusted"}

\* The win probability of the loser of a game, from the ratings of the
\* committed store.
LoserWinProb(g) ==
    LET v_a == StartRating(EntityA(g)).value
        v_b == StartRating(EntityB(g)).value
    IN  IF g.winner = 1 THEN Logistic(v_b - v_a) ELSE Logistic(v_a - v_b)

\* C11: a game between two established ratings adds the loser's win
\* probability to wins_adjusted of the winner's row and to losses_adjusted of
\* the loser's row, in player_matchups and in global_matchups, and one to
\* wins_real and losses_real of those two rows of global_matchups; no other
\* adjusted counter and no other global counter changes.
C11_LoserProbabilityWeights ==
    rate_pc = "tx" =>
        \A order \in Orders(rate_games) : \A i \in 1..Len(order) :
            LET g == order[i]
                b == Before(order, i)
                a == ProcessGame(b, g)
                w == LoserWinProb(g)
                ka == <<g.id_a, g.char_a, g.char_b>>
                kb == <<g.id_b, g.char_b, g.char_a>>
                winner_row == IF g.winner = 1 THEN ka ELSE kb
                loser_row == IF g.winner = 1 THEN kb ELSE ka
                winner_char == IF g.winner = 1 THEN g.char_a ELSE g.char_b
                loser_char == IF g.winner = 1 THEN g.char_b ELSE g.char_a
                won(k, x) == IF k = x THEN 1 ELSE 0
            IN  g \in EstablishedGames({g}) =>
                    /\ \A k \in DOMAIN a.pm :
                          /\ a.pm[k].wins_adjusted
                                = Counter(b.pm, k, "wins_adjusted") + w * won(k, winner_row)
                          /\ a.pm[k].losses_adjusted
                                = Counter(b.pm, k, "losses_adjusted") + w * won(k, loser_row)
                    /\ \A k \in DOMAIN a.gm :
                          LET wc == won(k, <<winner_char, loser_char>>)
                              lc == won(k, <<loser_char, winner_char>>)
                          IN  /\ a.gm[k].wins_real = Counter(b.gm, k, "wins_real") + wc
                              /\ a.gm[k].wins_adjusted
                                    = Counter(b.gm, k, "wins_adjusted") + w * wc
                              /\ a.gm[k].losses_real = Counter(b.gm, k, "losses_real") + lc
                              /\ a.gm[k].losses_adjusted
                                    = Counter(b.gm, k, "losses_adjusted") + w * lc

\* A window holds a game between two established ratings of different
\* values.
C11_Witness ==
    /\ rate_pc = "tx"
    /\ \E g \in EstablishedGames(BagToSet(rate_games)) :
          StartRating(EntityA(g)).value # StartRating(EntityB(g)).value

\* C12: a game that passes the established gate and the high-rating gate
\* changes every counter of high_rated_matchups by what it changes the same
\* counter of global_matchups by, whoever won; a game that fails the
\* high-rating gate changes no counter of high_rated_matchups.
C12_HighRatedSameAsGlobal ==
    rate_pc = "tx" =>
        \A order \in Orders(rate_games) : \A i \in 1..Len(order) :
            LET g == order[i]
                b == Before(order, i)
                a == ProcessGame(b, g)
            IN  /\ DOMAIN a.hm = DOMAIN a.gm
                /\ \A k \in DOMAIN a.hm : \A f \in CounterFields :
                      a.hm[k][f] - Counter(b.hm, k, f)
                          = IF g \in HighRatedGames({g})
                            THEN a.gm[k][f] - Counter(b.gm, k, f)
                            ELSE 0

\* The row of versus_matchups for the characters the other way round.
Mirror(ab) == <<ab[2], ab[1]>>

\* C13: after calc_versus_matchups every row (a, b) of versus_matchups has a
\* row (b, a) with the same game_count and pair_count, and the two win rates
\* are numbers that add up to 1, also for a pair of characters no bucket was
\* gathered for.  The code divides by a pair_count of 0 for such a pair
\* (rater.rs:780) and writes NaN on both rows.
C13_MirrorRowsSumToOne ==
    \A ab \in DOMAIN versus_matchups :
        /\ Mirror(ab) \in DOMAIN versus_matchups
        /\ versus_matchups[Mirror(ab)].game_count = versus_matchups[ab].game_count
        /\ versus_matchups[Mirror(ab)].pair_count = versus_matchups[ab].pair_count
        /\ ~versus_matchups[ab].win_rate.nan
        /\ ~versus_matchups[Mirror(ab)].win_rate.nan
        /\ versus_matchups[ab].win_rate.val + versus_matchups[Mirror(ab)].win_rate.val
              = ProbScale

\* C14: versus_matchups has rows only for pairs of characters with at least
\* one bucket.  The code writes two rows for every pair of the roster
\* (rater.rs:767-796), with pair_count 0 where it gathered none.
C14_RowsOnlyForPlayedPairs ==
    \A ab \in DOMAIN versus_matchups : versus_matchups[ab].pair_count >= 1

\* A stored game and its snapshot with the seats exchanged.
ReseatedGame(g) ==
    [g EXCEPT !.id_a = g.id_b, !.name_a = g.name_b, !.char_a = g.char_b,
              !.id_b = g.id_a, !.name_b = g.name_a, !.char_b = g.char_a,
              !.winner = IF g.winner = 1 THEN 2 ELSE 1]

ReseatedSnapshot(r) ==
    [r EXCEPT !.id_a = r.id_b, !.value_a = r.value_b, !.deviation_a = r.deviation_b,
              !.id_b = r.id_a, !.value_b = r.value_a, !.deviation_b = r.deviation_a]

\* The bag of the images under a function of the rows of a bag.
ImageBag(b, f) ==
    [y \in {f[x] : x \in BagToSet(b)} |->
        LET from == {x \in BagToSet(b) : f[x] = y}
        IN  SumOver([x \in from |-> CopiesIn(x, b)], from)]

\* The store with every game reported from the other seat.
ReseatedGames == ImageBag(games, [g \in BagToSet(games) |-> ReseatedGame(g)])

ReseatedRatings ==
    ImageBag(game_ratings, [r \in BagToSet(game_ratings) |-> ReseatedSnapshot(r)])

\* The qualifying games between two different characters, whatever the seats.
CrossRows(a, b) ==
    {j \in joined_rows(games, game_ratings) :
        a # b /\ {j[1].char_a, j[1].char_b} = {a, b}}

\* The side with the lower character won the game of a joined row.
LowSideWon(j) ==
    \/ j[1].char_a < j[1].char_b /\ j[1].winner = 1
    \/ j[1].char_b < j[1].char_a /\ j[1].winner = 2

\* C15: a game of one character against itself is in no bucket; every
\* qualifying game between two characters is in exactly the bucket keyed by
\* its two sides with the lower character first, with the winner told from
\* that side, whichever seat that side had; game_count of a pair of
\* characters is the number of qualifying games between them.
C15_OneBucketPerCrossGame ==
    LET pairs == versus_pairs(games, game_ratings)
    IN  /\ \A k \in DOMAIN pairs : k[1][2] < k[2][2]
        /\ \A j \in joined_rows(games, game_ratings) :
              /\ j[1].char_a = j[1].char_b => canonical(j[1], j[2]) = {}
              /\ j[1].char_a # j[1].char_b =>
                    /\ Cardinality(canonical(j[1], j[2])) = 1
                    /\ canonical(ReseatedGame(j[1]), ReseatedSnapshot(j[2]))
                          = canonical(j[1], j[2])
        /\ versus_table(versus_pairs(ReseatedGames, ReseatedRatings))
              = versus_table(pairs)
        /\ rate_pc = "idle" =>
              \A ab \in DOMAIN versus_matchups :
                  LET a == Min(ab[1], ab[2])
                      b == Max(ab[1], ab[2])
                      row == versus_matchups[<<a, b>>]
                  IN  /\ row.game_count = Cardinality(CrossRows(a, b))
                      /\ row.pair_count =
                            Cardinality({{EntityA(j[1]), EntityB(j[1])} :
                                            j \in CrossRows(a, b)})
                      /\ versus_matchups[ab].game_count = row.game_count
                      /\ row.pair_count >= 1 =>
                            /\ ~row.win_rate.nan
                            /\ row.win_rate.val > 0
                                  <=> \E j \in CrossRows(a, b) : LowSideWon(j)
                            /\ row.win_rate.val < ProbScale
                                  <=> \E j \in CrossRows(a, b) : ~LowSideWon(j)

\* A qualifying game whose lower character sat in seat b is in the table,
\* next to a rated game of one character against itself.
C15_Witness ==
    /\ rate_pc = "idle"
    /\ \E j \in joined_rows(games, game_ratings) :
          /\ j[1].char_b < j[1].char_a
          /\ versus_matchups[<<j[1].char_b, j[1].char_a>>].pair_count >= 1
    /\ \E g \in BagToSet(games) :
          /\ g.char_a = g.char_b
          /\ GameKey(g) \in SnapshotKeys(game_ratings)

\* The established ratings of player_ratings, in Glicko points.
EstablishedPoints ==
    [e \in {x \in DOMAIN player_ratings :
                player_ratings[x].rating.deviation < MAX_DEVIATION} |->
        player_ratings[e].rating.value + GLICKO_ORIGIN]

\* The number of established ratings from lo up to, not including, hi.
EstablishedIn(lo, hi) ==
    Cardinality({e \in DOMAIN EstablishedPoints :
                    EstablishedPoints[e] >= lo /\ EstablishedPoints[e] < hi})

\* The number of established ratings below hi.
EstablishedBelow(hi) ==
    Cardinality({e \in DOMAIN EstablishedPoints : EstablishedPoints[e] < hi})

\* C16: after update_player_distribution, player_rating_distribution has a
\* row exactly for the 50-point bins that hold at least 10 established
\* ratings; its player_count_cum is the number of established ratings below
\* the bin's upper bound, at least its player_count and not decreasing from
\* bin to bin; player_floor_distribution has exactly the floors 1..10 and 99,
\* with the counts of the players and games on the floor; no row of the
\* tables as they were is left.
C16_DistributionSnapshot ==
    rate_pc = "versus" =>
        /\ DOMAIN player_rating_distribution =
              {r * 50 : r \in {q \in 0..59 : EstablishedIn(q * 50, q * 50 + 50) >= 10}}
        /\ \A lo \in DOMAIN player_rating_distribution :
              LET row == player_rating_distribution[lo]
              IN  /\ row.max_rating = lo + 50
                  /\ row.player_count = EstablishedIn(lo, lo + 50)
                  /\ row.player_count_cum = EstablishedBelow(lo + 50)
                  /\ row.player_count_cum >= row.player_count
                  /\ \A hi \in DOMAIN player_rating_distribution :
                        lo <= hi => row.player_count_cum
                                      <= player_rating_distribution[hi].player_count_cum
        /\ DOMAIN player_floor_distribution = (1..10) \cup {99}
        /\ \A f \in DOMAIN player_floor_distribution :
              /\ player_floor_distribution[f].player_count
                    = Cardinality({id \in DOMAIN players : players[id].floor = f})
              /\ player_floor_distribution[f].game_count
                    = Cardinality({g \in BagToSet(games) : g.game_floor = f})

\* The snapshot was taken over the rows of an earlier one whose bin has no
\* row any more: one bin has a row whose cumulative count is above its own,
\* the bin before it is one entity short, and a game is counted on its floor.
C16_Witness ==
    /\ rate_pc = "versus"
    /\ 1500 \notin DOMAIN player_rating_distribution
    /\ EstablishedIn(1500, 1550) = 9
    /\ 1550 \in DOMAIN player_rating_distribution
    /\ player_rating_distribution[1550].player_count_cum
          > player_rating_distribution[1550].player_count
    /\ 1450 \notin DOMAIN player_rating_distribution
    /\ \E f \in DOMAIN player_floor_distribution :
          player_floor_distribution[f].game_count = 1

\* C17: a reader of the store never finds the ratings of a window next to
\* the distributions or the versus table of the window before: once the loop
\* has taken a snapshot, the three derived tables are at every moment those
\* of the committed games, players and ratings.  The code commits the window
\* (rater.rs:694), the distributions (rater.rs:386) and the versus table
\* (rater.rs:798) one after the other.
C17_TickIsAtomic ==
    player_floor_distribution # EmptyTable =>
        /\ player_rating_distribution = rating_distribution(player_ratings)
        /\ player_floor_distribution = floor_distribution(players, games)
        /\ versus_matchups = versus_table(versus_pairs(games, game_ratings))

\* The rating task fails inside the transaction of update_ratings.
PanicStep == rate_pc = "tx" /\ rate_pc' = "boot"

\* The program is started again and reads the cursor.
RestartStep == rate_pc = "boot" /\ rate_pc' = "idle"

\* C18: a window in which update_ratings fails commits nothing: the cursor,
\* player_ratings, players, player_names, the matchup tables and game_ratings
\* are as before it, and the program started again reads the same cursor and
\* finds the same window.
C18_FailedWindowStep ==
    /\ PanicStep =>
          /\ UNCHANGED <<last_update, player_ratings, players, player_names,
                         player_matchups, global_matchups, high_rated_matchups,
                         game_ratings, games>>
          /\ last_update' = last_timestamp
          /\ window_games(games', last_update', next_timestamp(last_update'))
                = rate_games
    /\ RestartStep =>
          /\ last_rating_timestmap' = last_update
          /\ UNCHANGED <<last_update, player_ratings, players, player_names,
                         player_matchups, global_matchups, high_rated_matchups,
                         game_ratings, games>>

C18_FailedWindowCommitsNothing == [][C18_FailedWindowStep]_vars

\* The program is down after a failure in a window that has games, with the
\* games of an earlier window rated.
C18_Witness ==
    /\ rate_pc = "boot"
    /\ game_ratings # EmptyBag
    /\ window_games(games, last_update, next_timestamp(last_update)) # EmptyBag

\* The cursor is caught up: the loop's guard (rater.rs:196) is false.
CaughtUp == now - last_update <= 3600 + 60

\* The tables of the store, config.last_update included.
Tables ==
    <<games, players, player_names, player_ratings, game_ratings, player_matchups,
      global_matchups, high_rated_matchups, versus_matchups,
      player_floor_distribution, player_rating_distribution, last_update>>

\* C19, step by step: a window is read only while the cursor is more than
\* an hour and a minute behind the clock, so its upper bound is more than a
\* minute in the past; it starts at the cursor, where the window before it
\* ended, and its commit moves the cursor by an hour; the distribution
\* snapshot and then the versus table follow every commit; with the cursor
\* caught up the task changes no table.
C19_LoopStep ==
    /\ ReadStep =>
          /\ ~CaughtUp
          /\ last_update + 3600 < now - 60
          /\ last_timestamp' = last_update
    /\ CommitStep =>
          /\ last_update' = last_timestamp + 3600
          /\ last_update' < now - 60
          /\ rate_pc' = "dist"
    /\ (rate_pc = "dist" /\ rate_pc' # "dist") =>
          /\ rate_pc' = "versus"
          /\ player_floor_distribution' = floor_distribution(players, games)
          /\ player_rating_distribution' = rating_distribution(player_ratings)
    /\ (rate_pc = "versus" /\ rate_pc' # "versus") =>
          /\ rate_pc' = "idle"
          /\ versus_matchups' = versus_table(versus_pairs(games, game_ratings))
    /\ (rate_pc = "idle" /\ CaughtUp) => (rate_pc' = "idle" /\ UNCHANGED Tables)

\* The rating task is in its loop.
InLoop == rate_pc \in {"idle", "tx", "dist", "versus"}

\* C19: windows are processed only while the cursor is more than an hour and
\* a minute behind, back to back, each followed by the distribution snapshot
\* and the versus table, and the loop comes to rest with the cursor caught up
\* (or the program has failed in a window); a tick with the cursor caught up
\* changes nothing.
C19_WindowsUntilCaughtUp ==
    /\ [][C19_LoopStep]_vars
    /\ InLoop ~> ((rate_pc = "idle" /\ CaughtUp) \/ rate_pc = "boot")

\* The loop has come to rest after two windows, the second with a game, and
\* the clock a minute and a second past the end of the second.
C19_Witness ==
    /\ rate_pc = "idle"
    /\ last_update = InitialCursor + 2 * 3600
    /\ now = last_update + 61
    /\ \E r \in BagToSet(game_ratings) : r.timestamp >= InitialCursor + 3600
    /\ player_floor_distribution = floor_distribution(players, games)

\* The stored games a player took part in.
GamesOf(id) == {g \in BagToSet(games) : g.id_a = id \/ g.id_b = id}

\* The name and the floor a stored game gives for a player.
PlayerRowAt(g, id) ==
    [name |-> IF g.id_a = id THEN g.name_a ELSE g.name_b, floor |-> g.game_floor]

\* C20: every row of players holds the name and the floor of the player's
\* most recent stored game.  update_player is a REPLACE with the data of
\* whatever game is at hand (rater.rs:296-303): add_game runs it before the
\* INSERT OR IGNORE, for a match older than the stored ones as well, and
\* update_ratings runs it again for every game of an old window
\* (rater.rs:441-442).
C20_PlayersHoldLatestGame ==
    \A id \in DOMAIN players :
        GamesOf(id) # {} =>
            \E g \in GamesOf(id) :
                /\ \A h \in GamesOf(id) : h.timestamp <= g.timestamp
                /\ players[id] = PlayerRowAt(g, id)

\* grab_games stores what it fetched and returns.
StoreStep == replays.fetched /\ ~replays'.fetched

\* C21: after an ingest tick that fetched `fetched` matches and added
\* new_games rows to games, "page count too low" is emitted exactly when
\* new_games = fetched, the advisory exactly when new_games # fetched and
\* new_games > fetched / 2, and no page-count diagnostic when all the fetched
\* matches were stored already (new_games = 0).  A fetch that returns no
\* match has new_games = fetched = 0 and takes the first branch of
\* rater.rs:245.
C21_DiagnosticStep ==
    StoreStep =>
        LET fetched == Len(replays.list)
            new_games == BagCardinality(games') - BagCardinality(games)
        IN  /\ page_diag' = "only_new" <=> new_games = fetched
            /\ page_diag' = "over_half" <=>
                  (new_games # fetched /\ new_games > fetched \div 2)
            /\ new_games = 0 => page_diag' = "quiet"

C22_EmptyWindowStep ==
    (CommitStep /\ rate_games = EmptyBag) =>
        /\ last_update' = last_update + 3600
        /\ DOMAIN player_ratings' = DOMAIN player_ratings
        /\ \A e \in DOMAIN player_ratings :
              /\ player_ratings'[e].rating = new_rating(player_ratings[e].rating, <<>>)
              /\ player_ratings'[e].rating.deviation > player_ratings[e].rating.deviation
              /\ player_ratings'[e].rating.value = player_ratings[e].rating.value
              /\ player_ratings'[e].win_count = player_ratings[e].win_count
              /\ player_ratings'[e].loss_count = player_ratings[e].loss_count
        /\ UNCHANGED <<player_matchups, global_matchups, high_rated_matchups,
                       game_ratings>>

C22_EmptyWindow == [][C22_EmptyWindowStep]_vars

\* An entity that has played is rated as after a period without games: its
\* deviation is above the one a period with games leaves.
C22_Witness ==
    /\ rate_pc = "idle"
    /\ \E e \in DOMAIN player_ratings :
          /\ player_ratings[e].win_count + player_ratings[e].loss_count > 0
          /\ player_ratings[e].rating.deviation
                = new_rating(new_rating(Unrated, <<GameResultWin(Unrated)>>),
                             <<>>).deviation

\* The characters of the roster.
Characters == 0..(RosterSize - 1)

\* The sum of a real counter over the rows of player_matchups of one
\* character against another.
PlayerRowsSum(a, b, field) ==
    LET rows == {k \in DOMAIN player_matchups : k[2] = a /\ k[3] = b}
    IN  SumOver([k \in rows |-> player_matchups[k][field]], rows)

\* C23: for all characters a and b, the same one included, the wins of
\* (a, b) are the losses of (b, a) in global_matchups and in
\* high_rated_matchups, real and adjusted, and the real wins of (a, b) in
\* high_rated_matchups are at most those in global_matchups, which are at
\* most the real wins of the player_matchups rows of a against b.
C23_MatchupTablesMirror ==
    \A a, b \in Characters :
        /\ Counter(global_matchups, <<a, b>>, "wins_real")
              = Counter(global_matchups, <<b, a>>, "losses_real")
        /\ Counter(global_matchups, <<a, b>>, "wins_adjusted")
              = Counter(global_matchups, <<b, a>>, "losses_adjusted")
        /\ Counter(high_rated_matchups, <<a, b>>, "wins_real")
              = Counter(high_rated_matchups, <<b, a>>, "losses_real")
        /\ Counter(high_rated_matchups, <<a, b>>, "wins_adjusted")
              = Counter(high_rated_matchups, <<b, a>>, "losses_adjusted")
        /\ Counter(high_rated_matchups, <<a, b>>, "wins_real")
              <= Counter(global_matchups, <<a, b>>, "wins_real")
        /\ Counter(global_matchups, <<a, b>>, "wins_real")
              <= PlayerRowsSum(a, b, "wins_real")

\* A high-rated game between two characters is counted, and the games of
\* some pair of characters are not all counted in global_matchups.
C23_Witness ==
    /\ \E a, b \in Characters :
          /\ a # b
          /\ Counter(high_rated_matchups, <<a, b>>, "wins_real") >= 1
    /\ \E a, b \in Characters :
          Counter(global_matchups, <<a, b>>, "wins_real")
              < PlayerRowsSum(a, b, "wins_real")

\* The sum of a real counter over the player_matchups rows of one
\* (player, character) entity, over every opposing character.
EntityRowsSum(e, field) ==
    LET keys == {k \in DOMAIN player_matchups : k[1] = e[1] /\ k[2] = e[2]}
        sum[S \in SUBSET keys] ==
            IF S = {} THEN 0
            ELSE LET k == CHOOSE x \in S : TRUE
                 IN  player_matchups[k][field] + sum[S \ {k}]
    IN  sum[keys]

\* C24, in every committed state: the win_count and loss_count of a
\* player_ratings row are the sums of wins_real and losses_real over the
\* player_matchups rows of that (player, character) entity.
C24_CountsMatchRows ==
    \A e \in DOMAIN player_ratings :
        /\ player_ratings[e].win_count = EntityRowsSum(e, "wins_real")
        /\ player_ratings[e].loss_count = EntityRowsSum(e, "losses_real")

\* C24, from one window to the next: a row of player_ratings stays, and
\* neither of its counts decreases.
C24_CountsStep ==
    \A e \in DOMAIN player_ratings :
        /\ e \in DOMAIN player_ratings'
        /\ player_ratings'[e].win_count >= player_ratings[e].win_count
        /\ player_ratings'[e].loss_count >= player_ratings[e].loss_count

\* C24: the lifetime counts of player_ratings equal the sums of the real
\* counters of the entity's player_matchups rows in every committed state,
\* and they never decrease from one window to the next.
C24_LifetimeCounts == []C24_CountsMatchRows /\ [][C24_CountsStep]_vars

\* An entity rated in two windows against two opposing characters, with a
\* win and a loss on record.
C24_Witness ==
    /\ rate_pc = "idle"
    /\ \E e \in DOMAIN player_ratings :
          /\ player_ratings[e].win_count >= 1
          /\ player_ratings[e].loss_count >= 1
          /\ Cardinality({k \in DOMAIN player_matchups :
                             k[1] = e[1] /\ k[2] = e[2]}) >= 2
          /\ \E t1, t2 \in {r.timestamp : r \in BagToSet(game_ratings)} :
                /\ t1 \div RATING_PERIOD # t2 \div RATING_PERIOD
                /\ \E r1, r2 \in BagToSet(game_ratings) :
                      /\ r1.timestamp = t1 /\ r2.timestamp = t2
                      /\ e[1] \in {r1.id_a, r1.id_b}
                      /\ e[1] \in {r2.id_a, r2.id_b}

\* The games counted by the row of high_rated_matchups for a against b.
HighRatedRowGames(a, b) ==
    Counter(high_rated_matchups, <<a, b>>, "wins_real")
        + Counter(high_rated_matchups, <<a, b>>, "losses_real")

\* C25: after a completed rating pass (update_ratings followed by
\* calc_versus_matchups), for every two different characters a and b the
\* game_count of the versus_matchups row of (a, b) is wins_real + losses_real
\* of the high_rated_matchups row of (a, b), zero where that row is missing.
C25_VersusCountsHighRatedGames ==
    (rate_pc = "idle" /\ versus_matchups # EmptyTable) =>
        \A a, b \in Characters :
            a # b => /\ <<a, b>> \in DOMAIN versus_matchups
                     /\ versus_matchups[<<a, b>>].game_count = HighRatedRowGames(a, b)

\* A completed pass with a high-rated game of two different characters on
\* record, and a pair of characters that has none.
C25_Witness ==
    /\ rate_pc = "idle"
    /\ versus_matchups # EmptyTable
    /\ \E a, b \in Characters :
          a # b /\ HighRatedRowGames(a, b) >= 1 /\ versus_matchups[<<a, b>>].game_count >= 1
    /\ \E a, b \in Characters : a # b /\ HighRatedRowGames(a, b) = 0

====
